---- MODULE Spec2Model ----
(***************************************************************************)
(* Natural-language blockchain query gateway.                              *)
(*                                                                         *)
(* POST /api/query runs: x402 payment middleware -> input checks ->        *)
(* LLMService.convertToSQL (LLM call, trim, validateSQL) ->                *)
(* CDPSQLService.executeQuery -> response.                                 *)
(*                                                                         *)
(* A JavaScript string is a sequence of one-character strings, so that     *)
(* toUpperCase, trim, startsWith and includes are computed on characters   *)
(* as the runtime computes them.                                           *)
(***************************************************************************)
EXTENDS Integers, Sequences, FiniteSets, TLC

VARIABLES
    walletId,        \* process.env.X402_WALLET_ID is set
    x402Middleware,  \* the middleware createX402Middleware() returned at startup
    openai,          \* LLMService.openai is a client (TRUE) or null (FALSE)
    cdpCreds,        \* CDPSQLService.apiKeyName and .privateKey are both set
    req,             \* per request: the route handler's position and locals
    vInput,          \* argument of a direct validateSQL call
    vFrags,          \* number of fragments vInput was built from
    vResult,         \* outcome of the direct validateSQL call
    xFailure,        \* what the POST to CDP failed with, in a direct executeQuery call
    xResponse,       \* the response the route handler's catch builds for that failure
    http,            \* the last exchange served outside the POST /api/query handler
    jwt,             \* the last direct call, if generateJWT: the key, the strategies tried, the outcome
    xSuccess         \* the last direct call, if a successful executeQuery: the reply and the return value

vars ==
    <<walletId, x402Middleware, openai, cdpCreds, req, vInput, vFrags, vResult,
      xFailure, xResponse, http, jwt, xSuccess>>

----------------------------------------------------------------------------
(* Bounds *)

\* requests handled concurrently
MaxReqs == 2
\* fragments concatenated into an input of validateSQL
MaxFrags == 3
\* rows in a reply of the CDP endpoint
MaxRows == 2

\* server.js:118  query.length > 1000
MaxQueryLen == 1000

----------------------------------------------------------------------------
(* Characters and string literals *)

LowerChars ==
    <<"a", "b", "c", "d", "e", "f", "g", "h", "i", "j", "k", "l", "m", "n", "o", "p", "q", "r", "s", "t", "u", "v", "w", "x", "y", "z">>
UpperChars ==
    <<"A", "B", "C", "D", "E", "F", "G", "H", "I", "J", "K", "L", "M", "N", "O", "P", "Q", "R", "S", "T", "U", "V", "W", "X", "Y", "Z">>
\* white space String.prototype.trim removes (those the inputs use)
WhiteSpace ==
    {" ", "\t", "\n", "\r"}

\* 'SELECT'
kwSELECT ==
    <<"S", "E", "L", "E", "C", "T">>
\* 'LIMIT'
kwLIMIT ==
    <<"L", "I", "M", "I", "T">>
\* 'DROP'
kwDROP ==
    <<"D", "R", "O", "P">>
\* 'DELETE'
kwDELETE ==
    <<"D", "E", "L", "E", "T", "E">>
\* 'UPDATE'
kwUPDATE ==
    <<"U", "P", "D", "A", "T", "E">>
\* 'INSERT'
kwINSERT ==
    <<"I", "N", "S", "E", "R", "T">>
\* 'CREATE'
kwCREATE ==
    <<"C", "R", "E", "A", "T", "E">>
\* 'ALTER'
kwALTER ==
    <<"A", "L", "T", "E", "R">>
\* 'TRUNCATE'
kwTRUNCATE ==
    <<"T", "R", "U", "N", "C", "A", "T", "E">>
\* 'SELECT '
fSelectSp ==
    <<"S", "E", "L", "E", "C", "T", " ">>
\* 'select '
fSelectLowerSp ==
    <<"s", "e", "l", "e", "c", "t", " ">>
\* 'SELECTED '
fSelectedSp ==
    <<"S", "E", "L", "E", "C", "T", "E", "D", " ">>
\* ' '
fSpace ==
    <<" ">>
\* '/*c*/'
fComment ==
    <<"/", "*", "c", "*", "/">>
\* 'drop'
fDropLower ==
    <<"d", "r", "o", "p">>
\* 'updated_at'
fUpdatedAt ==
    <<"u", "p", "d", "a", "t", "e", "d", "_", "a", "t">>
\* 'created_at'
fCreatedAt ==
    <<"c", "r", "e", "a", "t", "e", "d", "_", "a", "t">>
\* ' LIMIT 1'
fLimit1 ==
    <<" ", "L", "I", "M", "I", "T", " ", "1">>
\* ' limit 1'
fLimit1Lower ==
    <<" ", "l", "i", "m", "i", "t", " ", "1">>
\* 'gas_limit'
fGasLimit ==
    <<"g", "a", "s", "_", "l", "i", "m", "i", "t">>
\* '1'
fOne ==
    <<"1">>
\* ';'
fSemi ==
    <<";">>
\* '_'
fUnderscore ==
    <<"_">>
\* 'SELECT 1 as test LIMIT 1'
sqlSelectTest ==
    <<"S", "E", "L", "E", "C", "T", " ", "1", " ", "a", "s", " ", "t", "e", "s", "t", " ", "L", "I", "M", "I", "T", " ", "1">>
\* 'DELETE FROM base.transactions WHERE 1=1'
sqlDeleteAll ==
    <<"D", "E", "L", "E", "T", "E", " ", "F", "R", "O", "M", " ", "b", "a", "s", "e", ".", "t", "r", "a", "n", "s", "a", "c", "t", "i", "o", "n", "s", " ", "W", "H", "E", "R", "E", " ", "1", "=", "1">>
\* 'SELECT * FROM base.transactions; DROP TABLE users; --'
sqlInjection ==
    <<"S", "E", "L", "E", "C", "T", " ", "*", " ", "F", "R", "O", "M", " ", "b", "a", "s", "e", ".", "t", "r", "a", "n", "s", "a", "c", "t", "i", "o", "n", "s", ";", " ", "D", "R", "O", "P", " ", "T", "A", "B", "L", "E", " ", "u", "s", "e", "r", "s", ";", " ", "-", "-">>
\* 'SELECT gas_limit FROM base.blocks'
sqlGasLimit ==
    <<"S", "E", "L", "E", "C", "T", " ", "g", "a", "s", "_", "l", "i", "m", "i", "t", " ", "F", "R", "O", "M", " ", "b", "a", "s", "e", ".", "b", "l", "o", "c", "k", "s">>
\* 'SELECT updated_at FROM base.transfers LIMIT 5'
sqlUpdatedAt ==
    <<"S", "E", "L", "E", "C", "T", " ", "u", "p", "d", "a", "t", "e", "d", "_", "a", "t", " ", "F", "R", "O", "M", " ", "b", "a", "s", "e", ".", "t", "r", "a", "n", "s", "f", "e", "r", "s", " ", "L", "I", "M", "I", "T", " ", "5">>
\* 'SELECT hash FROM base.blocks'
sqlNoLimit ==
    <<"S", "E", "L", "E", "C", "T", " ", "h", "a", "s", "h", " ", "F", "R", "O", "M", " ", "b", "a", "s", "e", ".", "b", "l", "o", "c", "k", "s">>
\* ' select hash from base.blocks limit 5\n'
sqlPadded ==
    <<" ", "s", "e", "l", "e", "c", "t", " ", "h", "a", "s", "h", " ", "f", "r", "o", "m", " ", "b", "a", "s", "e", ".", "b", "l", "o", "c", "k", "s", " ", "l", "i", "m", "i", "t", " ", "5", "\n">>
\* '/* recent */ SELECT hash FROM base.blocks LIMIT 5'
sqlCommented ==
    <<"/", "*", " ", "r", "e", "c", "e", "n", "t", " ", "*", "/", " ", "S", "E", "L", "E", "C", "T", " ", "h", "a", "s", "h", " ", "F", "R", "O", "M", " ", "b", "a", "s", "e", ".", "b", "l", "o", "c", "k", "s", " ", "L", "I", "M", "I", "T", " ", "5">>
\* 'SELECTED 1 LIMIT 1'
sqlSelected ==
    <<"S", "E", "L", "E", "C", "T", "E", "D", " ", "1", " ", "L", "I", "M", "I", "T", " ", "1">>

----------------------------------------------------------------------------
(* String.prototype operations the code uses *)

\* the upper-case letter of each lower-case letter
UpperOf ==
    [c \in {LowerChars[i] : i \in 1..Len(LowerChars)} |->
        UpperChars[CHOOSE i \in 1..Len(LowerChars) : LowerChars[i] = c]]

\* String.prototype.toUpperCase on one character
toUpperChar(c) ==
    IF c \in DOMAIN UpperOf THEN UpperOf[c] ELSE c

\* String.prototype.toUpperCase: a new string, the receiver is unchanged
toUpperCase(s) ==
    [i \in 1..Len(s) |-> toUpperChar(s[i])]

\* String.prototype.startsWith
startsWith(s, prefix) ==
    /\ Len(prefix) <= Len(s)
    /\ SubSeq(s, 1, Len(prefix)) = prefix

\* String.prototype.includes: prefix of some suffix, at any position
includes(s, sub) ==
    \E i \in 1..(Len(s) - Len(sub) + 1) : SubSeq(s, i, i + Len(sub) - 1) = sub

\* String.prototype.trimStart
RECURSIVE trimStart(_)
trimStart(s) ==
    IF s = <<>> THEN s
    ELSE IF Head(s) \in WhiteSpace THEN trimStart(Tail(s))
    ELSE s

\* String.prototype.trimEnd
RECURSIVE trimEnd(_)
trimEnd(s) ==
    IF s = <<>> THEN s
    ELSE IF s[Len(s)] \in WhiteSpace THEN trimEnd(SubSeq(s, 1, Len(s) - 1))
    ELSE s

\* String.prototype.trim: strips white space from both ends
trim(s) ==
    trimEnd(trimStart(s))

----------------------------------------------------------------------------
(* LLMService.validateSQL *)

\* the deny list with its last entry missing
forbiddenKeywordsWithoutTruncate ==
    << [word |-> "DROP",     chars |-> kwDROP],
       [word |-> "DELETE",   chars |-> kwDELETE],
       [word |-> "UPDATE",   chars |-> kwUPDATE],
       [word |-> "INSERT",   chars |-> kwINSERT],
       [word |-> "CREATE",   chars |-> kwCREATE],
       [word |-> "ALTER",    chars |-> kwALTER] >>

\* llm.js:77  the deny list, in the order the loop visits it
forbiddenKeywords ==
    << [word |-> "DROP",     chars |-> kwDROP],
       [word |-> "DELETE",   chars |-> kwDELETE],
       [word |-> "UPDATE",   chars |-> kwUPDATE],
       [word |-> "INSERT",   chars |-> kwINSERT],
       [word |-> "CREATE",   chars |-> kwCREATE],
       [word |-> "ALTER",    chars |-> kwALTER],
       [word |-> "TRUNCATE", chars |-> kwTRUNCATE] >>

\* An Error's message is a sequence of text pieces, cut where the handler's
\* message.includes(...) tests need it; a caller that wraps an error prepends
\* its own piece (template literal `prefix: ${error.message}`).
\* llm.js:74
MsgOnlySelect ==
    <<"Only SELECT queries are allowed">>
\* llm.js:80
MsgForbidden(word) ==
    <<"Forbidden SQL keyword", " detected: ", word>>
\* llm.js:85
MsgMissingLimit ==
    <<"All queries ", "must include a LIMIT clause">>

\* a call that returned normally / a call that threw new Error(message)
Returned ==
    [threw |-> FALSE, message |-> <<>>]
Threw(message) ==
    [threw |-> TRUE, message |-> message]

\* llm.js:73  the leading-SELECT check on the upper-cased copy
selectCheck(upperQuery) ==
    startsWith(upperQuery, kwSELECT)

\* llm.js:79  one deny-list test
keywordCheck(upperQuery, keyword) ==
    includes(upperQuery, keyword.chars)

\* llm.js:84  the LIMIT check
limitCheck(upperQuery) ==
    includes(upperQuery, kwLIMIT)

\* the same with the LIMIT check moved ahead of the deny-list loop
validateSQLLimitFirst(sqlQuery) ==
    LET upperQuery == toUpperCase(sqlQuery)
        hits == {k \in 1..Len(forbiddenKeywords) : keywordCheck(upperQuery, forbiddenKeywords[k])}
    IN  IF ~selectCheck(upperQuery)
        THEN Threw(MsgOnlySelect)
        ELSE IF ~limitCheck(upperQuery)
        THEN Threw(MsgMissingLimit)
        ELSE IF hits # {}
        THEN LET k == CHOOSE i \in hits : \A j \in hits : i <= j
             IN  Threw(MsgForbidden(forbiddenKeywords[k].word))
        ELSE Returned

\* llm.js:70-87  throws on the first failing check, returns undefined otherwise
validateSQL(sqlQuery) ==
    LET upperQuery == toUpperCase(sqlQuery)
        hits == {k \in 1..Len(forbiddenKeywords) : keywordCheck(upperQuery, forbiddenKeywords[k])}
    IN  IF ~selectCheck(upperQuery)
        THEN Threw(MsgOnlySelect)
        ELSE IF hits # {}
        THEN LET k == CHOOSE i \in hits : \A j \in hits : i <= j
             IN  Threw(MsgForbidden(forbiddenKeywords[k].word))
        ELSE IF ~limitCheck(upperQuery)
        THEN Threw(MsgMissingLimit)
        ELSE Returned

----------------------------------------------------------------------------
(* Direct calls of validateSQL on generated inputs *)

\* pieces the generated inputs are concatenated from
Fragments ==
    { fSelectSp, fSelectLowerSp, fSelectedSp, fSpace, fComment,
      kwDROP, kwDELETE, kwUPDATE, kwINSERT, kwCREATE, kwALTER, kwTRUNCATE,
      fDropLower, fUpdatedAt, fCreatedAt, fLimit1, fLimit1Lower,
      fGasLimit, fOne, fSemi, fUnderscore }

\* whole statements: the documented scenarios and the LLM outputs of the pipeline
Statements ==
    { sqlSelectTest, sqlDeleteAll, sqlInjection, sqlGasLimit, sqlUpdatedAt,
      sqlNoLimit, sqlPadded, sqlCommented, sqlSelected }

\* no validateSQL call has been made
NotCalled ==
    [threw |-> FALSE, message |-> <<"not called">>]

\* the caller extends the argument by one fragment
AppendFragment ==
    /\ vResult = NotCalled
    /\ vFrags < MaxFrags
    /\ \E f \in Fragments : vInput' = vInput \o f
    /\ vFrags' = vFrags + 1
    /\ UNCHANGED <<walletId, x402Middleware, openai, cdpCreds, xFailure, xResponse, http, jwt, xSuccess, req, vResult>>

\* the caller takes a whole statement as the argument
ChooseStatement ==
    /\ vResult = NotCalled
    /\ vFrags = 0
    /\ \E s \in Statements : vInput' = s
    /\ vFrags' = MaxFrags
    /\ UNCHANGED <<walletId, x402Middleware, openai, cdpCreds, xFailure, xResponse, http, jwt, xSuccess, req, vResult>>

\* llmService.validateSQL(vInput)
ValidateDirect ==
    /\ vResult = NotCalled
    /\ vResult' = validateSQL(vInput)
    /\ UNCHANGED <<walletId, x402Middleware, openai, cdpCreds, xFailure, xResponse, http, jwt, xSuccess, req, vInput, vFrags>>

----------------------------------------------------------------------------
(* Startup: module-level construction in x402.js, llm.js, cdp-sql.js *)

\* the middleware @coinbase/x402 builds: admits a request that carries a
\* payment proof the facilitator accepts, answers 402 with the challenge otherwise
x402LibraryDecision(payment) ==
    IF payment = "valid" THEN "next" ELSE "payment_required"

\* the same with the walletId test inverted
createX402MiddlewareInverted(walletIdSet, libraryThrows) ==
    IF walletIdSet THEN "passthrough"
    ELSE IF libraryThrows THEN "config_error"
    ELSE "x402"

\* x402.js:4-32  which middleware the module exports
\*   libraryThrows: x402Middleware(x402Config) threw during construction
createX402Middleware(walletIdSet, libraryThrows) ==
    IF ~walletIdSet THEN "passthrough"
    ELSE IF libraryThrows THEN "config_error"
    ELSE "x402"

----------------------------------------------------------------------------
(* Requests *)

Reqs ==
    1..MaxReqs

\* req.body.query: undefined, a number, or a string of the given length
Queries ==
    { [type |-> "undefined", length |-> 0],
      [type |-> "number",    length |-> 0],
      [type |-> "string",    length |-> 0],
      [type |-> "string",    length |-> MaxQueryLen],
      [type |-> "string",    length |-> MaxQueryLen + 1] }

\* the payment proof a request carries
Payments ==
    {"none", "valid"}

\* a local that holds no string yet
NoString ==
    <<"<none>">>
\* res has not been written
NoResponse ==
    [status |-> 0]

\* generateJWT has not been called
NoJwt ==
    [called |-> FALSE]

\* no reply has arrived for the call
NoReply ==
    [kind |-> "none"]

IdleReq ==
    [ pc         |-> "idle",
      query      |-> [type |-> "undefined", length |-> 0],
      payment    |-> "none",
      stages     |-> <<>>,
      llmContent |-> NoString,
      validatedSql |-> NoString,
      validated  |-> NotCalled,
      sqlQuery   |-> NoString,
      sentSql    |-> NoString,
      llmReply   |-> NoReply,
      cdpReply   |-> NoReply,
      response   |-> NoResponse ]

\* what the OpenAI client yields for chat.completions.create
LLMReplies ==
    { [kind |-> "content", content |-> s, code |-> "", message |-> <<>>] :
          s \in {sqlPadded, sqlCommented, sqlInjection, sqlDeleteAll, sqlGasLimit, sqlNoLimit} }
    \cup
    { [kind |-> "null_content", content |-> NoString, code |-> "", message |-> <<>>] }
    \cup
    { [kind |-> "error", content |-> NoString, code |-> c, message |-> <<"upstream: ", c>>] :
          c \in {"insufficient_quota", "invalid_api_key", "ETIMEDOUT"} }

\* a text the upstream did not send
NoText ==
    <<>>

\* error.response.data.errorMessage / .message of a failed POST, cut into pieces
\* where the route handler's dispatch phrases begin and end
PayloadTexts ==
    { NoText,
      <<"syntax error near FROM">>,
      <<"upstream error">>,
      <<"backend ", "rate limit exceeded">>,
      <<"token ", "authentication failed">> }

\* HTTP statuses of a failed POST
FailureStatuses ==
    {400, 401, 403, 404, 429, 500, 502, 503}

\* how the POST to CDP can fail: an HTTP error response with its body, axios'
\* timeout (ECONNABORTED), or no response at all
ExecutorFailures ==
    { [kind |-> "http_error", status |-> st, rows |-> 0, errorMessage |-> em, message |-> m] :
          st \in FailureStatuses, em \in PayloadTexts, m \in PayloadTexts }
    \cup
    { [kind |-> k, status |-> 0, rows |-> 0, errorMessage |-> NoText, message |-> NoText] :
          k \in {"timeout", "network"} }

\* no call was made
NoFailure ==
    [kind |-> "none"]

\* where a 200 reply of CDP carries its rows: under data.result, or data is
\* the array of rows itself
RowsShapes ==
    {"result_field", "body"}

\* the 200 replies of the POST to CDP, with 0 to MaxRows rows
SuccessReplies ==
    { [kind |-> "ok", status |-> 200, rows |-> n, shape |-> sh,
       errorMessage |-> NoText, message |-> NoText] :
          n \in 0..MaxRows, sh \in RowsShapes }

\* the array of rows in a 200 reply
upstreamRows(reply) ==
    [i \in 1..reply.rows |-> i]

\* what the CDP endpoint yields for POST /v2/data/query/run within a request
\* of the pipeline: the rows, an error response, no response
CDPReplies ==
    { ok \in SuccessReplies : ok.rows = MaxRows /\ ok.shape = "result_field" }
    \cup
    { f \in ExecutorFailures :
          /\ f.status \in {0, 400, 500}
          /\ f.errorMessage = NoText
          /\ f.message = IF f.kind = "http_error" THEN <<"upstream error">> ELSE NoText }

\* String.prototype.includes on an error message, at the granularity of its pieces
msgIncludes(message, piece) ==
    \E i \in 1..Len(message) : message[i] = piece

\* the same dispatch, but recognising a validator error by how the message
\* starts (startsWith) instead of by what it contains
classifyByPrefix(message) ==
    IF msgIncludes(message, "LLM service not properly configured")
    THEN [status |-> 503, type |-> "llm_config_error"]
    ELSE IF msgIncludes(message, "CDP client not properly configured")
    THEN [status |-> 503, type |-> "cdp_config_error"]
    ELSE IF message # <<>> /\ Head(message) \in {"Only SELECT queries are allowed",
                                                 "Forbidden SQL keyword", "All queries "}
    THEN [status |-> 400, type |-> "sql_validation_error"]
    ELSE IF msgIncludes(message, "Invalid SQL query")
    THEN [status |-> 400, type |-> "invalid_sql_error"]
    ELSE IF msgIncludes(message, "authentication failed")
    THEN [status |-> 401, type |-> "auth_error"]
    ELSE IF msgIncludes(message, "rate limit exceeded")
    THEN [status |-> 429, type |-> "rate_limit_error"]
    ELSE [status |-> 500, type |-> "query_execution_error"]

\* server.js:149-172  status code and error type from the message text
classify(message) ==
    IF msgIncludes(message, "LLM service not properly configured")
    THEN [status |-> 503, type |-> "llm_config_error"]
    ELSE IF msgIncludes(message, "CDP client not properly configured")
    THEN [status |-> 503, type |-> "cdp_config_error"]
    ELSE IF \/ msgIncludes(message, "Only SELECT queries are allowed")
            \/ msgIncludes(message, "Forbidden SQL keyword")
            \/ msgIncludes(message, "must include a LIMIT clause")
    THEN [status |-> 400, type |-> "sql_validation_error"]
    ELSE IF msgIncludes(message, "Invalid SQL query")
    THEN [status |-> 400, type |-> "invalid_sql_error"]
    ELSE IF msgIncludes(message, "authentication failed")
    THEN [status |-> 401, type |-> "auth_error"]
    ELSE IF msgIncludes(message, "rate limit exceeded")
    THEN [status |-> 429, type |-> "rate_limit_error"]
    ELSE [status |-> 500, type |-> "query_execution_error"]

\* server.js:145-181  the catch block's response
errorResponse(message) ==
    [ status   |-> classify(message).status,
      type     |-> classify(message).type,
      error    |-> message,
      metadata |-> TRUE ]

\* server.js:111-123  the input checks' response, NoResponse when they pass
inputCheck(query) ==
    IF query.type = "undefined" \/ query.length = 0 \/ query.type # "string"
    THEN [status |-> 400, type |-> "validation_error",
          error |-> <<"Query is required and must be a string">>, metadata |-> FALSE]
    ELSE IF query.length > MaxQueryLen
    THEN [status |-> 400, type |-> "validation_error",
          error |-> <<"Query too long. Maximum 1000 characters allowed.">>, metadata |-> FALSE]
    ELSE NoResponse

\* the same, but returning the LLM's text as received instead of the
\* trimmed string that was validated
convertToSQLReturnsRaw(content) ==
    LET sqlQuery == trim(content)
        v == validateSQL(sqlQuery)
    IN  IF v.threw
        THEN [ threw |-> TRUE, validatedSql |-> sqlQuery, validated |-> v,
               sqlQuery |-> NoString,
               message |-> <<"LLM service error: ">> \o v.message ]
        ELSE [ threw |-> FALSE, validatedSql |-> sqlQuery, validated |-> v,
               sqlQuery |-> content,
               message |-> <<>> ]

\* llm.js:55-59, 66  trim the content, validate the trimmed string, return it;
\* a validateSQL error is caught and rethrown wrapped
\*   validatedSql: the argument validateSQL was given
\*   sqlQuery:     the value convertToSQL returns
convertToSQLContent(content) ==
    LET sqlQuery == trim(content)
        v == validateSQL(sqlQuery)
    IN  IF v.threw
        THEN [ threw |-> TRUE, validatedSql |-> sqlQuery, validated |-> v,
               sqlQuery |-> NoString,
               message |-> <<"LLM service error: ">> \o v.message ]
        ELSE [ threw |-> FALSE, validatedSql |-> sqlQuery, validated |-> v,
               sqlQuery |-> sqlQuery,
               message |-> <<>> ]

\* llm.js:55-67  convertToSQL from the point the LLM call settles
convertToSQLResume(reply) ==
    IF reply.kind = "error"
    THEN [ threw |-> TRUE, validatedSql |-> NoString, validated |-> NotCalled,
           sqlQuery |-> NoString,
           message |-> IF reply.code = "insufficient_quota"
                       THEN <<"OpenAI API quota exceeded. Please check your billing.">>
                       ELSE IF reply.code = "invalid_api_key"
                       THEN <<"Invalid OpenAI API key. Please check your configuration.">>
                       ELSE <<"LLM service error: ">> \o reply.message ]
    ELSE IF reply.kind = "null_content"
    THEN [ threw |-> TRUE, validatedSql |-> NoString, validated |-> NotCalled,
           sqlQuery |-> NoString,
           message |-> <<"LLM service error: ", "Cannot read properties of null (reading 'trim')">> ]
    ELSE convertToSQLContent(reply.content)

\* cdp-sql.js:123-131, 151-159  what executeQuery returns for a 200 reply:
\*   result:   response.data.result || response.data
\*   rowCount: Array.isArray(response.data.result) ? its length : 0
executeQueryResult(reply) ==
    [ result   |-> upstreamRows(reply),
      rowCount |-> IF reply.shape = "result_field" THEN Len(upstreamRows(reply)) ELSE 0 ]

\* a || b on strings: the first one that is not empty
orElse(a, b) ==
    IF a # NoText THEN a ELSE b

\* cdp-sql.js:161-182  executeQuery's catch: the Error it rethrows
executeQueryError(reply) ==
    IF reply.kind = "http_error"
    THEN IF reply.status = 401
         THEN <<"CDP API ", "authentication failed", ". Please check your API credentials.">>
         ELSE IF reply.status = 403
         THEN <<"CDP API access forbidden. Please check your API key permissions.">>
         ELSE IF reply.status = 429
         THEN <<"CDP API ", "rate limit exceeded", ". Please try again later.">>
         ELSE IF reply.status = 400
         THEN <<"Invalid SQL query", ": ">>
              \o orElse(reply.errorMessage, orElse(reply.message, <<"Bad request">>))
         ELSE <<"CDP SQL API Error (", ToString(reply.status), "): ">>
              \o orElse(reply.errorMessage,
                        orElse(reply.message,
                               <<"Request failed with status code ", ToString(reply.status)>>))
    ELSE IF reply.kind = "timeout"
    THEN <<"Query timeout. Please try a simpler query or add more specific filters.">>
    ELSE <<"Network error: ", "socket hang up">>

\* the same, but without the credential check in front of the try
executeQueryStartUnchecked(jwtFails) ==
    IF jwtFails
    THEN Threw(<<"Network error: ", "Failed to generate JWT with both Ed25519 and ECDSA: ", "signing error">>)
    ELSE Returned

\* cdp-sql.js:108-149  executeQuery up to the awaited POST: Returned when the
\* request was sent
\*   jwtFails: the manual-JWT path is taken and generateJWT throws
executeQueryStart(jwtFails) ==
    IF ~cdpCreds
    THEN Threw(<<"CDP client not properly configured",
                 ". Please set CDP_API_KEY_NAME and CDP_API_KEY_PRIVATE_KEY environment variables.">>)
    ELSE IF jwtFails
    THEN Threw(<<"Network error: ", "Failed to generate JWT with both Ed25519 and ECDSA: ", "signing error">>)
    ELSE Returned

\* convertToSQL's outcome for each reply of the LLM
convertToSQLOutcome ==
    [reply \in LLMReplies |-> convertToSQLResume(reply)]

\* res.json / res.status().json: the request is answered
Respond(r, ran, resp) ==
    [req[r] EXCEPT !.pc = "responded",
                   !.stages = @ \o ran \o <<"respond">>,
                   !.response = resp]

\* the same, but without the `return` in front of the input checks' response:
\* the handler answers 400 and goes on to the translator
routeHandlerStartNoReturn(r, ran) ==
    LET bad == inputCheck(req[r].query)
    IN  IF ~openai
        THEN Respond(r, ran \o <<"inputChecks", "convertToSQL">>,
                     errorResponse(<<"LLM service not properly configured",
                                     ". Please set OPENAI_API_KEY environment variable.">>))
        ELSE IF bad # NoResponse
        THEN [req[r] EXCEPT !.pc = "awaitLLM",
                            !.stages = @ \o ran \o <<"inputChecks", "respond", "convertToSQL", "llmCall">>,
                            !.response = bad]
        ELSE [req[r] EXCEPT !.pc = "awaitLLM",
                            !.stages = @ \o ran \o <<"inputChecks", "convertToSQL", "llmCall">>]

\* server.js:106-127  the route handler up to `await llmService.convertToSQL(query)`
\* llm.js:21-53       convertToSQL up to `await this.openai.chat.completions.create`
routeHandlerStart(r, ran) ==
    LET bad == inputCheck(req[r].query)
    IN  IF bad # NoResponse
        THEN Respond(r, ran \o <<"inputChecks">>, bad)
        ELSE IF ~openai
        THEN Respond(r, ran \o <<"inputChecks", "convertToSQL">>,
                     errorResponse(<<"LLM service not properly configured",
                                     ". Please set OPENAI_API_KEY environment variable.">>))
        ELSE [req[r] EXCEPT !.pc = "awaitLLM",
                            !.stages = @ \o ran \o <<"inputChecks", "convertToSQL", "llmCall">>]

\* POST /api/query arrives; express queues it for the route's middleware chain
PostQuery(r) ==
    /\ req[r].pc = "idle"
    /\ IF r = 1 THEN TRUE ELSE req[r - 1].pc # "idle"
    /\ \E q \in Queries, p \in Payments :
          req' = [req EXCEPT ![r] = [@ EXCEPT !.pc = "gate", !.query = q, !.payment = p]]
    /\ UNCHANGED <<walletId, x402Middleware, openai, cdpCreds, xFailure, xResponse, http, jwt, xSuccess, vInput, vFrags, vResult>>

\* the same route, but with a gate that keeps a session: once a request has
\* been admitted, later requests are admitted without a payment
RunMiddlewareWithSession(r) ==
    /\ req[r].pc = "gate"
    /\ req' = [req EXCEPT ![r] =
                 IF x402Middleware = "passthrough"
                 THEN routeHandlerStart(r, <<"gate">>)
                 ELSE IF x402Middleware = "config_error"
                 THEN Respond(r, <<"gate">>,
                              [status |-> 500, type |-> "x402_config_error",
                               error |-> <<"Payment system configuration error">>,
                               metadata |-> FALSE])
                 ELSE IF \/ x402LibraryDecision(req[r].payment) = "next"
                         \/ \E s \in Reqs : req[s].pc \notin {"idle", "gate"}
                                              /\ req[s].response # [status |-> 402, type |-> "payment_required",
                                                                      error |-> <<"challenge">>, metadata |-> FALSE]
                 THEN routeHandlerStart(r, <<"gate">>)
                 ELSE Respond(r, <<"gate">>,
                              [status |-> 402, type |-> "payment_required",
                               error |-> <<"challenge">>, metadata |-> FALSE])]
    /\ UNCHANGED <<walletId, x402Middleware, openai, cdpCreds, xFailure, xResponse, http, jwt, xSuccess, vInput, vFrags, vResult>>

\* the same route, but with a gate that admits every request when the payment
\* middleware could not be built
RunMiddlewareFailOpen(r) ==
    /\ req[r].pc = "gate"
    /\ req' = [req EXCEPT ![r] =
                 IF x402Middleware \in {"passthrough", "config_error"}
                 THEN routeHandlerStart(r, <<"gate">>)
                 ELSE IF x402LibraryDecision(req[r].payment) = "next"
                 THEN routeHandlerStart(r, <<"gate">>)
                 ELSE Respond(r, <<"gate">>,
                              [status |-> 402, type |-> "payment_required",
                               error |-> <<"challenge">>, metadata |-> FALSE])]
    /\ UNCHANGED <<walletId, x402Middleware, openai, cdpCreds, xFailure, xResponse, http, jwt, xSuccess, vInput, vFrags, vResult>>

\* server.js:105  router.post('/query', x402Middleware, handler): the handler runs
\* only when the middleware calls next()
RunMiddleware(r) ==
    /\ req[r].pc = "gate"
    /\ req' = [req EXCEPT ![r] =
                 IF x402Middleware = "passthrough"
                 THEN routeHandlerStart(r, <<"gate">>)
                 ELSE IF x402Middleware = "config_error"
                 THEN Respond(r, <<"gate">>,
                              [status |-> 500, type |-> "x402_config_error",
                               error |-> <<"Payment system configuration error">>,
                               metadata |-> FALSE])
                 ELSE IF x402LibraryDecision(req[r].payment) = "next"
                 THEN routeHandlerStart(r, <<"gate">>)
                 ELSE Respond(r, <<"gate">>,
                              [status |-> 402, type |-> "payment_required",
                               error |-> <<"challenge">>, metadata |-> FALSE])]
    /\ UNCHANGED <<walletId, x402Middleware, openai, cdpCreds, xFailure, xResponse, http, jwt, xSuccess, vInput, vFrags, vResult>>

\* llm.js:55-67 and server.js:127-130, cdp-sql.js:108-149: the LLM call settles;
\* convertToSQL trims, validates and returns; the handler calls executeQuery
\*   sdkClient: Coinbase.apiClients.wallet exists and has defaults, so the POST
\*              goes through walletClient.post instead of generateJWT + axios.post
LLMResponds(r) ==
    /\ req[r].pc = "awaitLLM"
    /\ \E reply \in LLMReplies, sdkClient \in BOOLEAN, jwtFails \in BOOLEAN :
          LET c == convertToSQLOutcome[reply]
              x == executeQueryStart(~sdkClient /\ jwtFails)
              ranV == IF c.validated = NotCalled THEN <<>> ELSE <<"validateSQL">>
              seen == [req[r] EXCEPT !.llmReply = [kind |-> reply.kind, code |-> reply.code],
                                     !.llmContent = reply.content,
                                     !.validatedSql = c.validatedSql,
                                     !.validated = c.validated,
                                     !.sqlQuery = c.sqlQuery]
          IN  req' = [req EXCEPT ![r] =
                        IF c.threw
                        THEN [seen EXCEPT !.pc = "responded",
                                          !.stages = @ \o ranV \o <<"respond">>,
                                          !.response = errorResponse(c.message)]
                        ELSE IF x.threw
                        THEN [seen EXCEPT !.pc = "responded",
                                          !.stages = @ \o ranV \o <<"executeQuery", "respond">>,
                                          !.response = errorResponse(x.message)]
                        ELSE [seen EXCEPT !.pc = IF sdkClient THEN "awaitSDK" ELSE "awaitCDP",
                                          !.stages = @ \o ranV \o <<"executeQuery", "cdpCall">>,
                                          !.sentSql = seen.sqlQuery]]
    /\ UNCHANGED <<walletId, x402Middleware, openai, cdpCreds, xFailure, xResponse, http, jwt, xSuccess, vInput, vFrags, vResult>>

\* the same, but returning only the first row of the result
successResponseFirstRow(query, sqlQuery, result) ==
    [ status        |-> 200,
      type          |-> "success",
      originalQuery |-> query,
      generatedSQL  |-> sqlQuery,
      result        |-> SubSeq(result.result, 1, 1),
      rowCount      |-> result.rowCount,
      metadata      |-> TRUE ]

\* server.js:132-143  the 200 response built from executeQuery's return value
successResponse(query, sqlQuery, result) ==
    [ status        |-> 200,
      type          |-> "success",
      originalQuery |-> query,
      generatedSQL  |-> sqlQuery,
      result        |-> result.result,
      rowCount      |-> result.rowCount,
      metadata      |-> TRUE ]

\* the same, but with sqlQuery kept in a variable of the module instead of a
\* local of the handler: the response names the SQL of whichever request wrote
\* it last
CDPRespondsSharedSql(r) ==
    /\ req[r].pc \in {"awaitSDK", "awaitCDP"}
    /\ \E reply \in CDPReplies, s \in Reqs :
          /\ reply.kind = "timeout" => req[r].pc = "awaitSDK"
          /\ req[s].sqlQuery # NoString
          /\ req' = [req EXCEPT ![r] =
                    [ IF reply.kind = "ok"
                      THEN Respond(r, <<>>, successResponse(req[r].query, req[s].sqlQuery,
                                                            executeQueryResult(reply)))
                      ELSE Respond(r, <<>>, errorResponse(executeQueryError(reply)))
                      EXCEPT !.cdpReply = reply ]]
    /\ UNCHANGED <<walletId, x402Middleware, openai, cdpCreds, xFailure, xResponse, http, jwt, xSuccess, vInput, vFrags, vResult>>

\* cdp-sql.js:118-182 and server.js:132-181: the CDP call settles and the
\* handler answers
\*   awaitSDK: walletClient.post, which is given no timeout
\*   awaitCDP: axios.post with timeout 30000, whose expiry is AxiosTimeout
CDPResponds(r) ==
    /\ req[r].pc \in {"awaitSDK", "awaitCDP"}
    /\ \E reply \in CDPReplies :
          /\ reply.kind = "timeout" => req[r].pc = "awaitSDK"
          /\ req' = [req EXCEPT ![r] =
                    [ IF reply.kind = "ok"
                      THEN Respond(r, <<>>, successResponse(req[r].query, req[r].sqlQuery,
                                                            executeQueryResult(reply)))
                      ELSE Respond(r, <<>>, errorResponse(executeQueryError(reply)))
                      EXCEPT !.cdpReply = reply ]]
    /\ UNCHANGED <<walletId, x402Middleware, openai, cdpCreds, xFailure, xResponse, http, jwt, xSuccess, vInput, vFrags, vResult>>

\* cdp-sql.js:148, 177-178  the 30 s timeout of axios.post expires: the call is
\* aborted with ECONNABORTED and the handler answers
AxiosTimeout(r) ==
    /\ req[r].pc = "awaitCDP"
    /\ \E reply \in CDPReplies :
          /\ reply.kind = "timeout"
          /\ req' = [req EXCEPT ![r] =
                    [ Respond(r, <<>>, errorResponse(executeQueryError(reply)))
                      EXCEPT !.cdpReply = reply ]]
    /\ UNCHANGED <<walletId, x402Middleware, openai, cdpCreds, xFailure, xResponse, http, jwt, xSuccess, vInput, vFrags, vResult>>

\* cdp-sql.js:161-182 and server.js:145-181: the POST of executeQuery fails, its
\* catch rethrows, and the route handler's catch answers
ExecutorFails ==
    /\ cdpCreds
    /\ \E f \in ExecutorFailures :
          /\ xFailure' = f
          /\ xResponse' = errorResponse(executeQueryError(f))
    /\ jwt' = NoJwt
    /\ xSuccess' = NoReply
    /\ UNCHANGED <<walletId, x402Middleware, openai, cdpCreds, req, vInput, vFrags, vResult, http>>

\* byte lengths of the base64-decoded private key
KeyLengths ==
    {16, 32, 48, 64, 121}

\* the same, but trying Ed25519 whatever the key's length
generateJWTAlwaysEd25519(keyLength, ed25519Signs, ecdsaSigns) ==
    IF ~cdpCreds
    THEN [ attempts |-> <<>>, threw |-> TRUE, token |-> "none",
           message |-> <<"CDP API credentials not configured">> ]
    ELSE IF ed25519Signs
    THEN [ attempts |-> <<"Ed25519">>, threw |-> FALSE, token |-> "EdDSA",
           message |-> <<>> ]
    ELSE IF ecdsaSigns
    THEN [ attempts |-> <<"Ed25519", "ECDSA">>, threw |-> FALSE, token |-> "ES256",
           message |-> <<>> ]
    ELSE [ attempts |-> <<"Ed25519", "ECDSA">>, threw |-> TRUE, token |-> "none",
           message |-> <<"Failed to generate JWT with both Ed25519 and ECDSA: ", "signing error">> ]

\* cdp-sql.js:36-106  generateJWT
\*   keyLength:    byte length of Buffer.from(privateKey, 'base64')
\*   ed25519Signs: the libsodium signing block runs without throwing
\*   ecdsaSigns:   jwt.sign with the PEM-wrapped key does not throw
\*   attempts:     the signing strategies tried, in order
generateJWT(keyLength, ed25519Signs, ecdsaSigns) ==
    LET tryEd25519 == keyLength = 32 \/ keyLength = 64
        before == IF tryEd25519 THEN <<"Ed25519">> ELSE <<>>
    IN  IF ~cdpCreds
        THEN [ attempts |-> <<>>, threw |-> TRUE, token |-> "none",
               message |-> <<"CDP API credentials not configured">> ]
        ELSE IF tryEd25519 /\ ed25519Signs
        THEN [ attempts |-> <<"Ed25519">>, threw |-> FALSE, token |-> "EdDSA",
               message |-> <<>> ]
        ELSE IF ecdsaSigns
        THEN [ attempts |-> before \o <<"ECDSA">>, threw |-> FALSE, token |-> "ES256",
               message |-> <<>> ]
        ELSE [ attempts |-> before \o <<"ECDSA">>, threw |-> TRUE, token |-> "none",
               message |-> <<"Failed to generate JWT with both Ed25519 and ECDSA: ", "signing error">> ]

\* cdpService.generateJWT() called on the service object
GenerateJWT ==
    /\ \E keyLength \in KeyLengths, ed25519Signs \in BOOLEAN, ecdsaSigns \in BOOLEAN :
          jwt' = [ called       |-> TRUE,
                   keyLength    |-> keyLength,
                   ed25519Signs |-> ed25519Signs,
                   ecdsaSigns   |-> ecdsaSigns,
                   outcome      |-> generateJWT(keyLength, ed25519Signs, ecdsaSigns) ]
    /\ xFailure' = NoFailure
    /\ xResponse' = NoResponse
    /\ xSuccess' = NoReply
    /\ UNCHANGED <<walletId, x402Middleware, openai, cdpCreds, req, vInput, vFrags, vResult, http>>

\* cdp-sql.js:118-159  the POST of executeQuery is answered 200 and executeQuery
\* returns
ExecutorSucceeds ==
    /\ cdpCreds
    /\ \E reply \in SuccessReplies :
          xSuccess' = [ kind |-> "ok", reply |-> reply, returned |-> executeQueryResult(reply) ]
    /\ xFailure' = NoFailure
    /\ xResponse' = NoResponse
    /\ jwt' = NoJwt
    /\ UNCHANGED <<walletId, x402Middleware, openai, cdpCreds, req, vInput, vFrags, vResult, http>>

----------------------------------------------------------------------------
(* The express application: global middleware, routes, 404 and error handler *)

Methods ==
    {"GET", "POST"}

\* request paths: the four routes and two paths no route matches
Paths ==
    {"/", "/api/health", "/api/examples", "/api/query", "/api/unknown", "/unknown"}

\* the body sent with Content-Type: application/json
Bodies ==
    {"none", "json", "invalid_json"}

\* the requests of the application other than a POST /api/query whose body
\* parsed, which is PostQuery
HttpRequests ==
    { h \in [method : Methods, path : Paths, payment : Payments, body : Bodies] :
          /\ h.method = "GET" => h.body = "none"
          /\ (h.method = "POST" /\ h.path = "/api/query") => h.body = "invalid_json" }

\* nothing has been served
NoExchange ==
    [status |-> 0]

\* the same, but matching a route on its path alone
routeOfAnyMethod(method, path) ==
    IF path = "/api/query" THEN "query"
    ELSE IF path = "/api/health" THEN "health"
    ELSE IF path = "/api/examples" THEN "examples"
    ELSE IF path = "/" THEN "root"
    ELSE "notFound"

\* server.js:25-39, 105, 185, 218  the route express matches
routeOf(method, path) ==
    IF method = "POST" /\ path = "/api/query" THEN "query"
    ELSE IF method = "GET" /\ path = "/api/health" THEN "health"
    ELSE IF method = "GET" /\ path = "/api/examples" THEN "examples"
    ELSE IF method = "GET" /\ path = "/" THEN "root"
    ELSE "notFound"

\* the same, but with the gate mounted on the router (router.use) instead of
\* on the one route
handlersOfGatedRouter(route) ==
    IF route \in {"query", "health", "examples"}
    THEN <<"x402Middleware", route>>
    ELSE <<route>>

\* server.js:105, 185, 218, 27, 41  the handlers registered for a route
handlersOf(route) ==
    IF route = "query"
    THEN <<"x402Middleware", route>>
    ELSE <<route>>

\* x402.js:13-31  what the gate answers, NoResponse when it calls next()
gateResponse(payment) ==
    IF x402Middleware = "passthrough" THEN NoResponse
    ELSE IF x402Middleware = "config_error"
    THEN [status |-> 500, type |-> "x402_config_error"]
    ELSE IF x402LibraryDecision(payment) = "next" THEN NoResponse
    ELSE [status |-> 402, type |-> "payment_required"]

\* cdp-sql.js:185-199  testConnection: succeeds when the credentials are set,
\* without calling CDP
testConnection ==
    IF ~cdpCreds
    THEN [success |-> FALSE, error |-> "CDP API credentials not configured"]
    ELSE [success |-> TRUE, error |-> ""]

\* the same, but healthy as soon as one service is configured
healthBodyAnyConfigured(test) ==
    LET services ==
            [ llm  |-> IF openai THEN "configured" ELSE "not_configured",
              cdp  |-> IF cdpCreds THEN "configured" ELSE "not_configured",
              x402 |-> IF walletId THEN "configured" ELSE "not_configured",
              cdp_connection |-> IF test.success THEN "connected" ELSE "failed" ]
        anyConfigured ==
            \E k \in DOMAIN services : services[k] \in {"configured", "connected"}
    IN  [ status   |-> 200,
          type     |-> "health",
          health   |-> IF anyConfigured THEN "healthy" ELSE "degraded",
          services |-> services ]

\* server.js:185-216  GET /health: the body, given testConnection's outcome
healthBody(test) ==
    LET configured ==
            [ llm  |-> IF openai THEN "configured" ELSE "not_configured",
              cdp  |-> IF cdpCreds THEN "configured" ELSE "not_configured",
              x402 |-> IF walletId THEN "configured" ELSE "not_configured",
              cdp_connection |-> IF test.success THEN "connected" ELSE "failed" ]
        services ==
            IF test.success THEN configured
            ELSE [k \in DOMAIN configured \cup {"cdp_error"} |->
                     IF k = "cdp_error" THEN test.error ELSE configured[k]]
        allConfigured ==
            \A k \in DOMAIN services : services[k] \in {"configured", "connected"}
    IN  [ status   |-> 200,
          type     |-> "health",
          health   |-> IF allConfigured THEN "healthy" ELSE "degraded",
          services |-> services ]

\* server.js:27-39, 41-51, 185-253  what the last handler of a route answers
routeResponse(route) ==
    IF route = "health" THEN healthBody(testConnection)
    ELSE IF route = "examples" THEN [status |-> 200, type |-> "examples"]
    ELSE IF route = "root" THEN [status |-> 200, type |-> "service_descriptor"]
    ELSE [status |-> 404, type |-> "not_found", error |-> "Endpoint not found",
          availableEndpoints |-> {"POST /api/query", "GET /api/health",
                                  "GET /api/examples", "GET /"}]

\* server.js:17, 25-68  express serves a request: express.json parses the body
\* and hands a parse failure to the error handler; otherwise the matched
\* route's handlers run in order
\*   ran: the middleware and handlers that ran for the request
ServeRequest ==
    /\ \E h \in HttpRequests :
          LET route == routeOf(h.method, h.path)
              chain == handlersOf(route)
              gated == Head(chain) = "x402Middleware"
              refused == IF gated THEN gateResponse(h.payment) ELSE NoResponse
          IN  http' =
                IF h.body = "invalid_json"
                THEN [ request  |-> h,
                       ran      |-> <<"express.json", "errorHandler">>,
                       response |-> [status |-> 400, type |-> "json_parse_error",
                                     error |-> "Invalid JSON in request body"] ]
                ELSE IF refused # NoResponse
                THEN [ request  |-> h,
                       ran      |-> <<"express.json", "x402Middleware">>,
                       response |-> refused ]
                ELSE [ request  |-> h,
                       ran      |-> <<"express.json">> \o chain,
                       response |-> routeResponse(route) ]
    /\ UNCHANGED <<walletId, x402Middleware, openai, cdpCreds, req, vInput, vFrags, vResult,
                   xFailure, xResponse, jwt, xSuccess>>

----------------------------------------------------------------------------
(* Specifications *)

\* the process after startup, before any request
Init ==
    /\ walletId \in BOOLEAN
    /\ \E libraryThrows \in BOOLEAN :
          x402Middleware = createX402Middleware(walletId, libraryThrows)
    /\ openai \in BOOLEAN
    /\ cdpCreds \in BOOLEAN
    /\ req = [r \in Reqs |-> IdleReq]
    /\ vInput = <<>>
    /\ vFrags = 0
    /\ vResult = NotCalled
    /\ xFailure = NoFailure
    /\ xResponse = NoResponse
    /\ http = NoExchange
    /\ jwt = NoJwt
    /\ xSuccess = NoReply

Next ==
    \E r \in Reqs :
        \/ PostQuery(r)
        \/ RunMiddleware(r)
        \/ LLMResponds(r)
        \/ CDPResponds(r)
        \/ AxiosTimeout(r)

\* the gateway serving POST /api/query
Spec ==
    Init /\ [][Next]_vars

\* the gateway with the timers the code sets: the only one is the timeout
\* option of axios.post (cdp-sql.js:148); chat.completions.create (llm.js:44-53)
\* and walletClient.post (cdp-sql.js:118-121) are given none, and whether the
\* LLM provider or CDP ever replies is not up to the gateway
SpecLive ==
    Init /\ [][Next]_vars /\ \A r \in Reqs : WF_vars(AxiosTimeout(r))

\* a configured service object whose validateSQL is called directly
InitValidate ==
    /\ walletId = FALSE
    /\ x402Middleware = createX402Middleware(FALSE, FALSE)
    /\ openai = TRUE
    /\ cdpCreds = TRUE
    /\ req = [r \in Reqs |-> IdleReq]
    /\ vInput = <<>>
    /\ vFrags = 0
    /\ vResult = NotCalled
    /\ xFailure = NoFailure
    /\ xResponse = NoResponse
    /\ http = NoExchange
    /\ jwt = NoJwt
    /\ xSuccess = NoReply

NextValidate ==
    \/ AppendFragment
    \/ ChooseStatement
    \/ ValidateDirect

SpecValidate ==
    InitValidate /\ [][NextValidate]_vars


\* the application serving its other routes
NextRoutes ==
    ServeRequest

SpecRoutes ==
    Init /\ [][NextRoutes]_vars

\* a CDPSQLService object, with or without credentials, whose methods are
\* called directly
InitExecutor ==
    /\ walletId = FALSE
    /\ x402Middleware = createX402Middleware(FALSE, FALSE)
    /\ openai = TRUE
    /\ cdpCreds \in BOOLEAN
    /\ req = [r \in Reqs |-> IdleReq]
    /\ vInput = <<>>
    /\ vFrags = 0
    /\ vResult = NotCalled
    /\ xFailure = NoFailure
    /\ xResponse = NoResponse
    /\ http = NoExchange
    /\ jwt = NoJwt
    /\ xSuccess = NoReply

NextExecutor ==
    \/ ExecutorFails
    \/ ExecutorSucceeds
    \/ GenerateJWT

SpecExecutor ==
    InitExecutor /\ [][NextExecutor]_vars

----------------------------------------------------------------------------
(* Vocabulary of the properties: SQL tokens, as the specification words them *)

DigitChars ==
    {"0", "1", "2", "3", "4", "5", "6", "7", "8", "9"}

\* a character that continues an identifier or keyword
IsWordChar(c) ==
    \/ c \in DOMAIN UpperOf
    \/ c \in {UpperChars[i] : i \in 1..Len(UpperChars)}
    \/ c \in DigitChars
    \/ c = "_"

\* word occurs in s, in any letter case, with no word character on either side
HasToken(s, word) ==
    LET u == toUpperCase(s)
        n == Len(word)
    IN  \E i \in 1..(Len(s) - n + 1) :
            /\ SubSeq(u, i, i + n - 1) = word
            /\ IF i = 1 THEN TRUE ELSE ~IsWordChar(s[i - 1])
            /\ IF i + n - 1 = Len(s) THEN TRUE ELSE ~IsWordChar(s[i + n])

\* word occurs in s, in any letter case, at any position
HasSubstring(s, word) ==
    includes(toUpperCase(s), word)

DenyWords ==
    {kwDROP, kwDELETE, kwUPDATE, kwINSERT, kwCREATE, kwALTER, kwTRUNCATE}

DenyWordNames ==
    {"DROP", "DELETE", "UPDATE", "INSERT", "CREATE", "ALTER", "TRUNCATE"}

HasDenyToken(s) ==
    \E w \in DenyWords : HasToken(s, w)

HasDenySubstring(s) ==
    \E w \in DenyWords : HasSubstring(s, w)

\* index of the first character of s at or after i that is neither white space
\* nor inside a leading /* */ or -- comment; Len(s) + 1 when there is none
RECURSIVE StatementStart(_, _)
StatementStart(s, i) ==
    IF i > Len(s) THEN Len(s) + 1
    ELSE IF s[i] \in WhiteSpace THEN StatementStart(s, i + 1)
    ELSE IF i < Len(s) /\ s[i] = "/" /\ s[i + 1] = "*"
    THEN LET ends == {j \in (i + 2)..(Len(s) - 1) : s[j] = "*" /\ s[j + 1] = "/"}
         IN  IF ends = {} THEN Len(s) + 1
             ELSE StatementStart(s, (CHOOSE j \in ends : \A k \in ends : j <= k) + 2)
    ELSE IF i < Len(s) /\ s[i] = "-" /\ s[i + 1] = "-"
    THEN LET ends == {j \in (i + 2)..Len(s) : s[j] = "\n"}
         IN  IF ends = {} THEN Len(s) + 1
             ELSE StatementStart(s, (CHOOSE j \in ends : \A k \in ends : j <= k) + 1)
    ELSE i

\* the statement's first keyword, upper-cased: the longest run of word
\* characters at the statement's start
FirstKeyword(s) ==
    LET b == StatementStart(s, 1)
        stops == {j \in b..Len(s) : ~IsWordChar(s[j])}
        e == IF stops = {} THEN Len(s)
             ELSE (CHOOSE j \in stops : \A k \in stops : j <= k) - 1
    IN  toUpperCase(SubSeq(s, b, e))

\* the first characters of s are the letters SELECT, in any letter case
BeginsWithSelect(s) ==
    Len(s) >= Len(kwSELECT) /\ toUpperCase(SubSeq(s, 1, Len(kwSELECT))) = kwSELECT

\* the validator's verdicts
Accepted(v) ==
    v = Returned
RejectedNotSelect(v) ==
    v.threw /\ v.message = MsgOnlySelect
RejectedForbidden(v) ==
    v.threw /\ \E w \in DenyWordNames : v.message = MsgForbidden(w)
RejectedMissingLimit(v) ==
    v.threw /\ v.message = MsgMissingLimit

\* the direct call has been made
Validated ==
    vResult # NotCalled

\* stage a ran before stage b in request r
RanBefore(r, a, b) ==
    \E i, j \in 1..Len(req[r].stages) :
        i < j /\ req[r].stages[i] = a /\ req[r].stages[j] = b

\* stage a ran in request r
Ran(r, a) ==
    \E i \in 1..Len(req[r].stages) : req[r].stages[i] = a

----------------------------------------------------------------------------
(* Properties *)

\* C1: executeQuery is invoked only after validateSQL accepted a candidate in
\* the same request, and the string it is given and posts is exactly the
\* string validateSQL accepted: the trimmed LLM output, not upper-cased.
C1_ExecutorGetsValidatedSql ==
    \A r \in Reqs :
        /\ Ran(r, "executeQuery") =>
              /\ RanBefore(r, "validateSQL", "executeQuery")
              /\ Accepted(req[r].validated)
              /\ req[r].sqlQuery = req[r].validatedSql
              /\ req[r].validatedSql = trim(req[r].llmContent)
        /\ Ran(r, "cdpCall") =>
              /\ Ran(r, "executeQuery")
              /\ req[r].sentSql = req[r].validatedSql
        /\ ~Ran(r, "cdpCall") => req[r].sentSql = NoString

\* a padded lower-case LLM output was trimmed, accepted and posted as trimmed
C1_Witness ==
    \E r \in Reqs :
        /\ req[r].pc = "awaitCDP"
        /\ req[r].llmContent = sqlPadded
        /\ req[r].sentSql = trim(sqlPadded)
        /\ req[r].sentSql # sqlPadded
        /\ req[r].sentSql # toUpperCase(req[r].sentSql)

C3_DenyTokenRejected ==
    Validated =>
        /\ (BeginsWithSelect(vInput) /\ HasDenyToken(vInput)) => RejectedForbidden(vResult)
        /\ vInput = sqlInjection => RejectedForbidden(vResult)

\* a lower-case standalone deny word after SELECT was rejected as forbidden
C3_Witness ==
    /\ vInput = fSelectSp \o fDropLower \o fLimit1
    /\ HasDenyToken(vInput)
    /\ RejectedForbidden(vResult)

\* C4: a string that begins with SELECT, has a LIMIT clause, and holds a
\* deny-set word only inside a longer identifier is accepted.
C4_DenySubstringAccepted ==
    Validated =>
        ((/\ BeginsWithSelect(vInput)
          /\ HasToken(vInput, kwLIMIT)
          /\ HasDenySubstring(vInput)
          /\ ~HasDenyToken(vInput)) => Accepted(vResult))

\* C5: a string whose first keyword is not SELECT is rejected with the
\* not-SELECT error, also when its first word only starts with SELECT.
C5_NotSelectRejected ==
    Validated =>
        (FirstKeyword(vInput) # kwSELECT => RejectedNotSelect(vResult))

\* C6: an LLM output whose first keyword is SELECT in any letter case, after
\* only white space or comments, is not rejected with the not-SELECT error.
C6_LeadingCommentTolerated ==
    \A r \in Reqs :
        (Ran(r, "validateSQL") /\ FirstKeyword(req[r].llmContent) = kwSELECT) =>
            ~RejectedNotSelect(req[r].validated)

\* C7: a string that passes the SELECT and deny-set rules and has no LIMIT
\* token is rejected with the missing-LIMIT error.
C7_NoLimitTokenRejected ==
    Validated =>
        ((/\ ~RejectedNotSelect(vResult)
          /\ ~RejectedForbidden(vResult)
          /\ ~HasToken(vInput, kwLIMIT)) => RejectedMissingLimit(vResult))

\* C8: the rules are applied in the order not-SELECT, forbidden keyword,
\* missing LIMIT and the first failing one gives the reason, whatever later
\* rules the string also fails.
C8_FirstFailingRuleWins ==
    Validated =>
        LET u == toUpperCase(vInput)
            failsSelect == ~selectCheck(u)
            failsDeny == \E k \in 1..Len(forbiddenKeywords) : keywordCheck(u, forbiddenKeywords[k])
            failsLimit == ~limitCheck(u)
        IN  /\ failsSelect => RejectedNotSelect(vResult)
            /\ (~failsSelect /\ failsDeny) => RejectedForbidden(vResult)
            /\ (~failsSelect /\ ~failsDeny /\ failsLimit) => RejectedMissingLimit(vResult)
            /\ (BeginsWithSelect(vInput) /\ HasDenyToken(vInput) /\ ~HasToken(vInput, kwLIMIT))
                  => RejectedForbidden(vResult)
            /\ vInput = sqlDeleteAll => RejectedNotSelect(vResult)

\* a statement that passes the first rule and fails both later ones was
\* rejected with the second rule's reason
C8_Witness ==
    /\ Validated
    /\ vInput = fSelectSp \o kwDROP
    /\ HasDenyToken(vInput)
    /\ ~HasSubstring(vInput, kwLIMIT)
    /\ RejectedForbidden(vResult)

\* C9: a string whose first keyword is SELECT, with no deny-set token and with
\* a LIMIT clause, is accepted.
C9_CompliantAccepted ==
    Validated =>
        ((/\ FirstKeyword(vInput) = kwSELECT
          /\ ~HasDenyToken(vInput)
          /\ HasToken(vInput, kwLIMIT)) => Accepted(vResult))

\* the body's query is missing, not a string, empty, or too long
Malformed(query) ==
    \/ query.type # "string"
    \/ query.length < 1
    \/ query.length > MaxQueryLen

\* the request has been answered
Responded(r) ==
    req[r].pc = "responded"

\* C11: a request whose query is missing, not a string, empty or longer than
\* 1000 characters is answered 400 validation_error without the translator or
\* the executor being invoked, whatever the gate's mode; a string of 1 to 1000
\* characters passes the input check.
C11_MalformedAnswered400 ==
    \A r \in Reqs :
        /\ (Responded(r) /\ Malformed(req[r].query)) =>
              /\ req[r].response.status = 400
              /\ req[r].response.type = "validation_error"
              /\ ~Ran(r, "convertToSQL")
              /\ ~Ran(r, "executeQuery")
        /\ (Ran(r, "inputChecks") /\ ~Malformed(req[r].query)) =>
              Ran(r, "convertToSQL")

\* the response says that payment was not enforced for it
MarkedUnprotected(resp) ==
    \E f \in DOMAIN resp : f \in {"unprotected", "paymentEnforced", "paymentSkipped"}

\* C12: with no X402_WALLET_ID every request is admitted to the route handler
\* without a payment check, and its response carries a marker saying that
\* payment was not enforced.
C12_UnconfiguredAdmitsAndMarks ==
    \A r \in Reqs :
        (~walletId /\ Responded(r)) =>
            /\ Ran(r, "inputChecks")
            /\ MarkedUnprotected(req[r].response)

\* the gate has decided on request r
PastGate(r) ==
    Ran(r, "gate") \/ req[r].pc \notin {"idle", "gate"}

\* the gate let request r through to the route handler
Admitted(r) ==
    Ran(r, "inputChecks") \/ req[r].pc \in {"awaitLLM", "awaitCDP"}

\* C13: the gate's decision for a request is a function of that request's
\* payment proof and of the startup configuration alone, whatever requests were
\* served before it; an unpaid request under an installed payment gate is
\* refused with 402 also after other requests were admitted.
C13_GateDecisionPerRequest ==
    \A r \in Reqs :
        PastGate(r) =>
            /\ Admitted(r) <=>
                  \/ x402Middleware = "passthrough"
                  \/ x402Middleware = "x402" /\ req[r].payment = "valid"
            /\ (x402Middleware = "x402" /\ req[r].payment = "none") =>
                  /\ Responded(r)
                  /\ req[r].response.status = 402

\* a paid request was admitted and served, and the unpaid request after it
\* was refused
C13_Witness ==
    /\ x402Middleware = "x402"
    /\ req[1].payment = "valid"
    /\ Responded(1)
    /\ req[1].response.status = 200
    /\ req[2].payment = "none"
    /\ Responded(2)
    /\ req[2].response.status = 402

\* the stages of a request in the order the route runs them
StageOrder ==
    <<"gate", "inputChecks", "convertToSQL", "llmCall", "validateSQL",
      "executeQuery", "cdpCall", "respond">>

\* position of each stage in that order
StageRankOf ==
    [a \in {StageOrder[k] : k \in 1..Len(StageOrder)} |->
        CHOOSE k \in 1..Len(StageOrder) : StageOrder[k] = a]

StageRank(a) ==
    StageRankOf[a]

C15_EveryResponseHasElapsedTime ==
    \A r \in Reqs :
        Responded(r) => req[r].response.metadata

\* C16: when validateSQL rejects the LLM's statement (not SELECT, forbidden
\* keyword, missing LIMIT), the request is answered 400 sql_validation_error,
\* although convertToSQL rethrows the rejection wrapped as an LLM service error.
C16_ValidatorRejectionIs400 ==
    \A r \in Reqs :
        (Responded(r) /\ Ran(r, "validateSQL") /\ ~Accepted(req[r].validated)) =>
            /\ \/ RejectedNotSelect(req[r].validated)
               \/ RejectedForbidden(req[r].validated)
               \/ RejectedMissingLimit(req[r].validated)
            /\ req[r].response.status = 400
            /\ req[r].response.type = "sql_validation_error"
            /\ req[r].response.error = <<"LLM service error: ">> \o req[r].validated.message

\* the injection statement came back from the LLM, was rejected for its
\* forbidden keyword, and the wrapped error was answered 400
C16_Witness ==
    \E r \in Reqs :
        /\ Responded(r)
        /\ req[r].llmContent = sqlInjection
        /\ RejectedForbidden(req[r].validated)
        /\ Head(req[r].response.error) = "LLM service error: "
        /\ req[r].response.status = 400
        /\ req[r].response.type = "sql_validation_error"

\* C17: without OPENAI_API_KEY an admitted, well-formed request is answered
\* 503 llm_config_error before any external call; with the LLM configured and
\* the CDP credentials missing, a request that reaches executeQuery is
\* answered 503 cdp_config_error after the LLM call and validateSQL ran, and
\* no CDP request is sent.
C17_MissingCredentials503 ==
    \A r \in Reqs :
        /\ (~openai /\ Ran(r, "convertToSQL")) =>
              /\ Responded(r)
              /\ req[r].response.status = 503
              /\ req[r].response.type = "llm_config_error"
              /\ ~Ran(r, "llmCall")
              /\ ~Ran(r, "cdpCall")
        /\ (openai /\ ~cdpCreds /\ Ran(r, "executeQuery")) =>
              /\ Responded(r)
              /\ req[r].response.status = 503
              /\ req[r].response.type = "cdp_config_error"
              /\ RanBefore(r, "llmCall", "executeQuery")
              /\ RanBefore(r, "validateSQL", "executeQuery")
              /\ ~Ran(r, "cdpCall")

\* the executor had no credentials: the LLM's statement was validated and the
\* request answered 503 cdp_config_error with nothing sent to CDP
C17_Witness ==
    \E r \in Reqs :
        /\ openai
        /\ ~cdpCreds
        /\ Responded(r)
        /\ Accepted(req[r].validated)
        /\ req[r].response.type = "cdp_config_error"
        /\ req[r].sentSql = NoString

\* request r was answered with the error convertToSQL throws when the LLM
\* provider could not be reached or rejected the API key
TranslatorUnavailable(r) ==
    /\ Responded(r)
    /\ Ran(r, "llmCall")
    /\ ~Ran(r, "validateSQL")
    /\ \E reply \in LLMReplies :
          /\ reply.kind = "error"
          /\ reply.code \in {"invalid_api_key", "ETIMEDOUT"}
          /\ req[r].response.error = convertToSQLOutcome[reply].message

\* C18: a translator failure caused by the provider being unreachable or
\* rejecting the API key is answered 503.
C18_TranslatorUnavailableIs503 ==
    \A r \in Reqs :
        TranslatorUnavailable(r) => req[r].response.status = 503

\* the POST of a direct executeQuery call failed and the handler answered
ExecutorFailed ==
    xFailure # NoFailure

\* C19: an executor failure is answered 401 auth_error for an upstream 401,
\* 429 rate_limit_error with the elapsed time for an upstream 429, 400 for an
\* upstream 400, and 500 for a timeout, a network failure, an upstream 403 and
\* every other failure.
C19_ExecutorFailureStatus ==
    ExecutorFailed =>
        /\ (xFailure.kind = "http_error" /\ xFailure.status = 401) =>
              /\ xResponse.status = 401
              /\ xResponse.type = "auth_error"
        /\ (xFailure.kind = "http_error" /\ xFailure.status = 429) =>
              /\ xResponse.status = 429
              /\ xResponse.type = "rate_limit_error"
              /\ xResponse.metadata
        /\ (xFailure.kind = "http_error" /\ xFailure.status = 400) =>
              xResponse.status = 400
        /\ (xFailure.kind # "http_error" \/ xFailure.status \notin {400, 401, 429}) =>
              xResponse.status = 500

\* the pieces of text that come from an upstream service's error: the LLM
\* provider's error message, the CDP error body's errorMessage and message
UpstreamErrorText ==
    { reply.message[i] : reply \in {x \in LLMReplies : x.kind = "error"}, i \in 1..2 }
    \cup
    UNION { {t[i] : i \in 1..Len(t)} : t \in PayloadTexts }

\* C20: an error response of POST /api/query holds only a safe error text, a
\* type and the timing metadata; no text taken from the error payload of the
\* LLM provider or of CDP appears in it.
C20_NoUpstreamTextReturned ==
    \A r \in Reqs :
        (Responded(r) /\ req[r].response.status # 200) =>
            \A i \in 1..Len(req[r].response.error) :
                req[r].response.error[i] \notin UpstreamErrorText

\* C21: a 200 response holds exactly the rows CDP returned for that request,
\* and is sent only when the LLM call, validateSQL and the CDP call all
\* succeeded; an error response holds no result at all.
C21_AllRowsOrNone ==
    \A r \in Reqs :
        Responded(r) =>
            /\ req[r].response.status = 200 =>
                  /\ req[r].llmReply.kind = "content"
                  /\ Accepted(req[r].validated)
                  /\ req[r].cdpReply.kind = "ok"
                  /\ req[r].response.result = upstreamRows(req[r].cdpReply)
            /\ req[r].response.status # 200 =>
                  /\ "result" \notin DOMAIN req[r].response
                  /\ req[r].cdpReply.kind # "ok"
            /\ req[r].cdpReply.kind = "ok" => req[r].response.status = 200

\* CDP returned MaxRows rows and the 200 response holds all of them
C21_Witness ==
    \E r \in Reqs :
        /\ Responded(r)
        /\ req[r].response.status = 200
        /\ req[r].cdpReply.rows = MaxRows
        /\ Len(req[r].response.result) = MaxRows

\* C22: every request the gate admitted is eventually answered, also when
\* the LLM provider or CDP never replies, because each external call is
\* bounded by a timeout.
C22_AdmittedEventuallyAnswered ==
    \A r \in Reqs : Admitted(r) ~> Responded(r)

\* requests r and s had the same body and payment and got the same replies
\* to their external calls
SameInputs(r, s) ==
    /\ req[r].query = req[s].query
    /\ req[r].payment = req[s].payment
    /\ req[r].llmReply = req[s].llmReply
    /\ req[r].llmContent = req[s].llmContent
    /\ req[r].cdpReply = req[s].cdpReply

Served(route) ==
    /\ http # NoExchange
    /\ routeOf(http.request.method, http.request.path) = route
    /\ http.request.body # "invalid_json"

\* C24: GET /api/health always answers 200 with a status object; it reports
\* 'healthy' exactly when the LLM key, the CDP credential pair and the wallet
\* id are all configured and the CDP connection is reported connected, and
\* 'degraded' otherwise; a failed connection test is reported in the body and
\* does not fail the request.
C24_HealthyIffAllConfigured ==
    Served("health") =>
        /\ http.response.status = 200
        /\ http.response.health \in {"healthy", "degraded"}
        /\ http.response.health = "healthy" <=>
              /\ openai
              /\ cdpCreds
              /\ walletId
              /\ http.response.services.cdp_connection = "connected"
        /\ ~testConnection.success =>
              /\ http.response.services.cdp_connection = "failed"
              /\ http.response.health = "degraded"

\* with every credential set the health route reported healthy
C24_Witness ==
    /\ Served("health")
    /\ openai
    /\ cdpCreds
    /\ walletId
    /\ http.response.health = "healthy"
    /\ http.response.services.cdp_connection = "connected"

DefinedRoutes ==
    { <<"POST", "/api/query">>, <<"GET", "/api/health">>,
      <<"GET", "/api/examples">>, <<"GET", "/">> }

\* the last exchange was a request for a method and path no route defines
UndefinedRouteRequested ==
    /\ http # NoExchange
    /\ <<http.request.method, http.request.path>> \notin DefinedRoutes

\* the 404 answer with the list of endpoints
AnsweredNotFound ==
    /\ http.response.status = 404
    /\ http.response.availableEndpoints =
          {"POST /api/query", "GET /api/health", "GET /api/examples", "GET /"}

\* the 400 json_parse_error answer, given before the gate or any handler ran
AnsweredJsonParseError ==
    /\ http.response.status = 400
    /\ http.response.type = "json_parse_error"
    /\ http.ran = <<"express.json", "errorHandler">>

Attempted(strategy) ==
    \E i \in 1..Len(jwt.outcome.attempts) : jwt.outcome.attempts[i] = strategy

Ed25519Failed ==
    Attempted("Ed25519") /\ ~jwt.ed25519Signs

\* C27: generateJWT tries Ed25519 before ECDSA and never one of them twice; a
\* strategy that succeeds is the last one tried; Ed25519 is tried only with a
\* decoded key of 32 or 64 bytes; with credentials, ECDSA is tried exactly when
\* Ed25519 was not tried or failed, and the call throws exactly when ECDSA was
\* tried and failed; without credentials it throws and nothing was tried.
C27_SigningStrategiesInOrder ==
    jwt.called =>
        /\ jwt.outcome.attempts \in {<<>>, <<"Ed25519">>, <<"ECDSA">>, <<"Ed25519", "ECDSA">>}
        /\ jwt.outcome.token = "EdDSA" => jwt.outcome.attempts = <<"Ed25519">>
        /\ jwt.outcome.token = "ES256" =>
               jwt.outcome.attempts[Len(jwt.outcome.attempts)] = "ECDSA"
        /\ Attempted("Ed25519") => jwt.keyLength \in {32, 64}
        /\ cdpCreds => (Attempted("ECDSA") <=> (~Attempted("Ed25519") \/ Ed25519Failed))
        /\ cdpCreds => (jwt.outcome.threw <=> (Attempted("ECDSA") /\ ~jwt.ecdsaSigns))
        /\ ~cdpCreds => (jwt.outcome.threw /\ jwt.outcome.attempts = <<>>)
        /\ jwt.outcome.threw <=> jwt.outcome.token = "none"

\* a 64-byte key whose Ed25519 signing failed and whose ECDSA signing succeeded
C27_Witness ==
    /\ jwt.called
    /\ cdpCreds
    /\ jwt.keyLength = 64
    /\ jwt.outcome.attempts = <<"Ed25519", "ECDSA">>
    /\ jwt.outcome.token = "ES256"


\* C28: in every value executeQuery returns, rowCount is the number of rows in
\* result, whether the reply carries the rows under its result field or is the
\* array of rows itself.
C28_RowCountIsNumberOfRows ==
    xSuccess.kind = "ok" =>
        xSuccess.returned.rowCount = Len(xSuccess.returned.result)


\* two failures of the POST are of the same kind: both timeouts, both network
\* failures, or both HTTP error responses with the same status
SameKindOfFailure(f, g) ==
    /\ f.kind = g.kind
    /\ f.status = g.status

\* C29: the status and type answered for an executor failure depend on the
\* kind of failure only: every failure of the same kind, whatever the text of
\* its error payload, is answered with the same status and type.
C29_StatusIndependentOfPayloadText ==
    ExecutorFailed =>
        \A g \in ExecutorFailures :
            SameKindOfFailure(xFailure, g) =>
                /\ errorResponse(executeQueryError(g)).status = xResponse.status
                /\ errorResponse(executeQueryError(g)).type = xResponse.type


\* the payment backend identifier is configured but the payment middleware
\* could not be built at startup
GateFailedToInitialize ==
    walletId /\ x402Middleware = "config_error"

\* in that mode every request that went through the gate was answered there,
\* 500 x402_config_error, and ran no later stage
FailsClosed ==
    GateFailedToInitialize =>
        \A r \in Reqs :
            PastGate(r) =>
                /\ Responded(r)
                /\ req[r].response.status = 500
                /\ req[r].response.type = "x402_config_error"
                /\ req[r].stages = <<"gate", "respond">>
                /\ ~Admitted(r)

\* C30: the gate's mode is the one chosen at startup from the configuration
\* and no step changes it; when the identifier is configured and the payment
\* middleware failed to initialize, every POST /api/query is answered 500
\* x402_config_error at the gate and reaches neither the input checks, the
\* translator nor the executor.
C30_GateModeFixedAndFailsClosed ==
    /\ [][x402Middleware' = x402Middleware /\ walletId' = walletId]_vars
    /\ [](x402Middleware = "config_error" => walletId)
    /\ []FailsClosed

\* the payment middleware failed to initialize and two requests, one of them
\* carrying a valid payment, were both answered 500 at the gate
C30_Witness ==
    /\ GateFailedToInitialize
    /\ req[1].payment = "valid"
    /\ req[2].payment = "none"
    /\ \A r \in Reqs :
          /\ Responded(r)
          /\ req[r].response.type = "x402_config_error"

====
